---- MODULE Spec2Model ----
(***************************************************************************)
(* Model of the gandalf planning bot: the sqlite tables of planning.py     *)
(* (plannings, options, voters, votes), the Planning / Option / Voter      *)
(* entity methods that read and write them, and the chat and inline        *)
(* handlers of handlers.py that call those methods.                        *)
(*                                                                         *)
(*   Spec      the entity API driven directly, as test_planning.py does,   *)
(*             through one connection and a few in-memory instances.       *)
(*   EntitySpec  constructors, save and load of Planning and Option over   *)
(*             every title, status, text and ordinal of the input sets.    *)
(*   VoteSpec  one Planning instance with options, open / close and votes. *)
(*   ChatSpec  the handlers of handlers.py, one whole handler per step.    *)
(*   OwnerSpec plannings of two owners in every status, with the chat      *)
(*             handlers of their owners.                                   *)
(*   EqualSpec Option and Voter instances compared with ==.                *)
(*   InlineSpec  inline query ids formatted and parsed back.               *)
(*   ConcSpec  two handler sessions of handlers.py, each with its own      *)
(*             connection, interleaved statement by statement.             *)
(***************************************************************************)
EXTENDS Integers, Sequences, FiniteSets, TLC

\* ------------------------------------------------------------------ bounds
MaxPl == 2          \* planning ids 1..MaxPl
MaxOpt == 2         \* option ids 1..MaxOpt
MaxVotes == 2       \* rows of the votes table
NInst == 2          \* in-memory Planning instances held by the caller
NUsers == 2         \* Telegram user ids 1..NUsers (owners and voters)

PlIds == 1..MaxPl
OptIds == 1..MaxOpt
Users == 1..NUsers
Insts == 1..NInst
Nums == 0..MaxOpt

\* ------------------------------------------------------- program constants
UNDER_CONSTRUCTION == "Under construction"
OPENED == "Opened"
CLOSED == "Closed"
Status == {UNDER_CONSTRUCTION, OPENED, CLOSED}
INLINE_QUERY_PREFIX == "planning_"

\* Inputs.  "" is the empty title / text the constructors reject.
Titles == {"Fancy diner", "Crappy lunch"}
Texts == {"Monday", "Tuesday"}
\* <<first_name, last_name>> of a Telegram user; last_name may be None (NULL).
Names == {<<"Joey", "NULL">>, <<"Chandler", "Bing">>}

\* Spec drives the entity API for one owner, as test_planning.py does.
ApiUser == 123
ApiTitles == {"Fancy diner", ""}

\* Python's None for an id, and the absence of a row or of an instance.
None == 0
NoRow == [absent |-> TRUE]

VARIABLES
    plannings,  \* plannings table: pl_id -> [user_id, title, status] or NoRow
    options,    \* options table:   opt_id -> [pl_id, txt, num] or NoRow
    voters,     \* voters table:    v_id -> [first_name, last_name] or NoRow
    votes,      \* votes table: a bag of (opt_id, v_id) rows, <<o, v>> -> count
    pending,    \* option rows deleted in the still open transaction of the
                \* API connection (a remove_from_db that failed its assert)
    inst,       \* in-memory Planning instances: slot -> fields or NoRow
    sess,       \* handler sessions of ConcSpec: their position and locals
    last        \* the last call: operation, arguments, outcome

vars == <<plannings, options, voters, votes, pending, inst, sess, last>>
store == <<plannings, options, voters, votes, pending>>

\* ------------------------------------------------------------ table helpers
SetMax(S) == CHOOSE x \in S : \A y \in S : y <= x

PlRows(pls) == {p \in PlIds : pls[p] # NoRow}
OptRows(opts) == {o \in OptIds : opts[o] # NoRow}
VoterRows(vs) == {v \in Users : vs[v] # NoRow}

\* sqlite rowid of an INTEGER PRIMARY KEY column without AUTOINCREMENT:
\* one more than the largest rowid in the table, 1 for an empty table.
NextPlId(pls) == IF PlRows(pls) = {} THEN 1 ELSE SetMax(PlRows(pls)) + 1
NextOptId(opts) == IF OptRows(opts) = {} THEN 1 ELSE SetMax(OptRows(opts)) + 1

NbVotes(vt) ==
    LET RECURSIVE Sum(_)
        Sum(S) == IF S = {} THEN 0
                  ELSE LET x == CHOOSE x \in S : TRUE IN vt[x] + Sum(S \ {x})
    IN Sum(OptIds \X Users)

EmptyPending == [o \in OptIds |-> NoRow]

\* What is on disk: the connection's view plus the rows its open
\* transaction has deleted but not committed.
Committed(opts, pend) ==
    [o \in OptIds |-> IF pend[o] # NoRow THEN pend[o] ELSE opts[o]]

\* A handler session of ConcSpec: where it stands in its handler (pc) and
\* the handler's local variables.
NSess == 2
Sessions == 1..NSess
Idle == [pc |-> "idle", u |-> 0, p |-> 0, n |-> 0, o |-> 0]

Call(op, i, o, v, res) == [op |-> op, i |-> i, o |-> o, v |-> v, res |-> res]

\* ------------------------------------------------------------ planning.py
\* open() with the assert comparing against the wrong status
CanOpenNotOpened(st) == st # OPENED

\* Planning.open: assert self.status == UNDER_CONSTRUCTION
CanOpen(st) == st = UNDER_CONSTRUCTION

\* Planning.close: assert self.status == OPENED
CanClose(st) == st = OPENED

\* INSERT INTO plannings(user_id, title, status)
InsertPlanning(pls, u, t, st) ==
    [pls EXCEPT ![NextPlId(pls)] = [user_id |-> u, title |-> t, status |-> st]]

\* an UPDATE that matches its row and writes nothing
UpdateStatusKeepsRow(pls, p, st) == pls

\* UPDATE plannings SET status=? WHERE pl_id=?
UpdateStatus(pls, p, st) == [pls EXCEPT ![p].status = st]

\* the DELETE on plannings with "<=" for "="
DeletePlanningsUpTo(pls, p) == [q \in PlIds |-> IF q <= p THEN NoRow ELSE pls[q]]

\* DELETE FROM plannings WHERE pl_id=?
DeletePlanning(pls, p) == [q \in PlIds |-> IF q = p THEN NoRow ELSE pls[q]]

\* the options SELECT without its WHERE clause
OptionsOfAnyPlanning(opts, p) == OptRows(opts)

\* rows of: SELECT * FROM options WHERE pl_id=?
OptionsOf(opts, p) == {o \in OptRows(opts) : opts[o].pl_id = p}

\* the DELETE on options without its WHERE clause
DeleteOptionsNoWhere(opts, p) == [o \in OptIds |-> NoRow]

\* DELETE FROM options WHERE pl_id=?
DeleteOptions(opts, p) ==
    [o \in OptIds |-> IF o \in OptionsOf(opts, p) THEN NoRow ELSE opts[o]]

\* Option.load_all_from_planning_id_from_db, the value of Planning.options:
\* the option rows of: SELECT * FROM options WHERE pl_id=? ORDER BY num
LoadAllFromPlanningIdFromDb(opts, p) ==
    LET S == OptionsOf(opts, p)
        n == Cardinality(S)
    IN CHOOSE s \in [1..n -> S] :
           \A a, b \in 1..n :
               a < b => (s[a] # s[b] /\ opts[s[a]].num <= opts[s[b]].num)

\* an ordinal counted from one
NumFromOne(opts, p) == Len(LoadAllFromPlanningIdFromDb(opts, p)) + 1

\* num=len(planning.options): the ordinal given to a new option
NewNum(opts, p) == Len(LoadAllFromPlanningIdFromDb(opts, p))

\* INSERT INTO options(pl_id, txt, num)
InsertOption(opts, p, txt, n) ==
    [opts EXCEPT ![NextOptId(opts)] = [pl_id |-> p, txt |-> txt, num |-> n]]

\* the under-construction SELECT bound to the wrong status
UnderConstructionOfWrongStatus(pls, u) ==
    {p \in PlRows(pls) : pls[p].status = OPENED /\ pls[p].user_id = u}

\* the under-construction SELECT without "AND user_id=?"
UnderConstructionOfAnyUser(pls, u) ==
    {p \in PlRows(pls) : pls[p].status = UNDER_CONSTRUCTION}

\* an under-construction SELECT that finds no row
UnderConstructionOfNoRow(pls, u) == {}

\* rows of: SELECT * FROM plannings WHERE status=? AND user_id=?
UnderConstructionOf(pls, u) ==
    {p \in PlRows(pls) : pls[p].status = UNDER_CONSTRUCTION /\ pls[p].user_id = u}

\* the opened SELECT without "status=? AND"
OpenedWithIdAnyStatus(pls, p) == {q \in PlRows(pls) : q = p}

\* rows of: SELECT * FROM plannings WHERE status=? AND pl_id=?
OpenedWithId(pls, p) == {q \in PlRows(pls) : pls[q].status = OPENED /\ q = p}

\* the option SELECT without "AND num=?"
OptionsAtAnyNum(opts, p, n) == OptionsOf(opts, p)

\* rows of: SELECT * FROM options WHERE pl_id=? AND num=?
OptionsAt(opts, p, n) == {o \in OptionsOf(opts, p) : opts[o].num = n}

\* create_or_update_to_db that keeps the stored names of a known voter
CreateOrKeepVoter(vs, v, fn, ln) ==
    IF vs[v] # NoRow THEN vs
    ELSE [vs EXCEPT ![v] = [first_name |-> fn, last_name |-> ln]]

\* Voter.create_or_update_to_db: the row is inserted when the SELECT finds
\* none, else its first_name and last_name are overwritten.
CreateOrUpdateVoter(vs, v, fn, ln) ==
    [vs EXCEPT ![v] = [first_name |-> fn, last_name |-> ln]]

\* INSERT INTO votes(opt_id, v_id): the table has no uniqueness constraint.
InsertVote(vt, o, v) == [vt EXCEPT ![<<o, v>>] = @ + 1]

\* a load that does not read the status column
FromRowDefaultStatus(pls, p) ==
    [pl_id |-> p, user_id |-> pls[p].user_id, title |-> pls[p].title,
     status |-> UNDER_CONSTRUCTION]

\* Voters with a row of: voters NATURAL JOIN votes NATURAL JOIN options,
\* restricted to the option rows in O; SELECT DISTINCT keeps each voter once.
JoinedVoters(vs, vt, opts, O) ==
    {v \in VoterRows(vs) : \E o \in O : o \in OptRows(opts) /\ vt[<<o, v>>] > 0}

\* ORDER BY first_name on the first names of Names
FirstNameRank(fn) == IF fn = "Chandler" THEN 1 ELSE 2

OrderByFirstName(vs, V) ==
    LET n == Cardinality(V)
    IN CHOOSE s \in [1..n -> V] :
           \A a, b \in 1..n :
               a < b => /\ s[a] # s[b]
                        /\ FirstNameRank(vs[s[a]].first_name)
                               <= FirstNameRank(vs[s[b]].first_name)

\* Voter.load_all_from_planning_id_from_db, the value of Planning.voters
VotersOfPlanning(vs, vt, opts, p) ==
    OrderByFirstName(vs, JoinedVoters(vs, vt, opts, OptionsOf(opts, p)))

\* Voter.load_all_from_option_id_from_db, the value of Option.voters
VotersOfOption(vs, vt, opts, o) ==
    OrderByFirstName(vs, JoinedVoters(vs, vt, opts, {o}))

\* a participant total that counts the joined rows, without DISTINCT
NbParticipantsJoinedRows(vs, vt, opts, p) ==
    LET RECURSIVE Sum(_)
        Sum(S) == IF S = {} THEN 0
                  ELSE LET x == CHOOSE x \in S : TRUE IN vt[x] + Sum(S \ {x})
    IN Sum(OptionsOf(opts, p) \X VoterRows(vs))

\* Planning.full_description: nb_participants=len(self.voters)
NbParticipants(vs, vt, opts, p) == Len(VotersOfPlanning(vs, vt, opts, p))

\* a load_all_from_db whose SELECT has no WHERE clause
LoadAllOfEveryUser(pls, u) ==
    LET S == PlRows(pls)
        n == Cardinality(S)
    IN CHOOSE s \in [1..n -> S] : \A a, b \in 1..n : a < b => s[a] < s[b]

\* Planning.load_all_from_db: the rows of SELECT * FROM plannings WHERE
\* user_id=?, which sqlite scans in rowid (pl_id) order.
LoadAllFromDb(pls, u) ==
    LET S == {p \in PlRows(pls) : pls[p].user_id = u}
        n == Cardinality(S)
    IN CHOOSE s \in [1..n -> S] : \A a, b \in 1..n : a < b => s[a] < s[b]

\* Planning.short_description(num): '*{num+1}*. *{title}* - _{status}_'
ShortDescription(pls, p, num) ==
    [num |-> num + 1, title |-> pls[p].title, status |-> pls[p].status]

\* [p.short_description(num) for num, p in enumerate(plannings)]
PlanningList(pls, u) ==
    LET loaded == LoadAllFromDb(pls, u)
    IN [k \in 1..Len(loaded) |-> ShortDescription(pls, loaded[k], k - 1)]

\* An instance built from a row, as the load_* methods build it.
FromRow(pls, p) ==
    [pl_id |-> p, user_id |-> pls[p].user_id, title |-> pls[p].title,
     status |-> pls[p].status]

\* Planning.is_in_db: None has no row; any other id is passed to execute()
\* as a bare integer, "(self.pl_id)", which sqlite3 rejects with "parameters
\* are of unsupported type" (ProgrammingError; ValueError before Python 3.11).
PlanningIsInDb(pls, p) ==
    IF p = None THEN "False" ELSE "ProgrammingError"

\* Option.is_in_db
OptionIsInDb(opts, o) ==
    IF o = None THEN "False"
    ELSE IF o \in OptRows(opts) THEN "True" ELSE "False"

\* --------------------------------------------------------------------- Init
Init ==
    /\ plannings = [p \in PlIds |-> NoRow]
    /\ options = [o \in OptIds |-> NoRow]
    /\ voters = [v \in Users |-> NoRow]
    /\ votes = [x \in OptIds \X Users |-> 0]
    /\ pending = EmptyPending
    /\ inst = [i \in Insts |-> NoRow]
    /\ sess = [s \in Sessions |-> Idle]
    /\ last = Call("init", 0, 0, 0, "None")

\* ------------------------------------------- the entity API, one connection
\* pl = Planning(None, u, t, st, conn)
PlanningInit(i, u, t, st) ==
    /\ IF t = ""
       THEN /\ last' = Call("Planning", i, 0, 0, "AssertionError")
            /\ UNCHANGED inst
       ELSE /\ inst' = [inst EXCEPT ![i] =
                   [pl_id |-> None, user_id |-> u, title |-> t, status |-> st]]
            /\ last' = Call("Planning", i, 0, 0, "None")
    /\ UNCHANGED <<store, sess>>

\* pl.save_to_db()
SaveToDb(i) ==
    /\ inst[i] # NoRow
    /\ IF PlanningIsInDb(plannings, inst[i].pl_id) # "False"
       THEN /\ last' = Call("save_to_db", i, 0, 0,
                            PlanningIsInDb(plannings, inst[i].pl_id))
            /\ UNCHANGED <<store, inst>>
       ELSE /\ NextPlId(plannings) <= MaxPl
            /\ plannings' = InsertPlanning(plannings, inst[i].user_id,
                                           inst[i].title, inst[i].status)
            /\ pending' = EmptyPending
            /\ inst' = [inst EXCEPT ![i].pl_id = NextPlId(plannings)]
            /\ last' = Call("save_to_db", i, 0, 0, "None")
            /\ UNCHANGED <<options, voters, votes>>
    /\ UNCHANGED sess

\* pl.open()
Open(i) ==
    /\ inst[i] # NoRow
    /\ IF CanOpen(inst[i].status)
       THEN /\ inst' = [inst EXCEPT ![i].status = OPENED]
            /\ last' = Call("open", i, 0, 0, "None")
       ELSE /\ last' = Call("open", i, 0, 0, "AssertionError")
            /\ UNCHANGED inst
    /\ UNCHANGED <<store, sess>>

\* pl.close()
Close(i) ==
    /\ inst[i] # NoRow
    /\ IF CanClose(inst[i].status)
       THEN /\ inst' = [inst EXCEPT ![i].status = CLOSED]
            /\ last' = Call("close", i, 0, 0, "None")
       ELSE /\ last' = Call("close", i, 0, 0, "AssertionError")
            /\ UNCHANGED inst
    /\ UNCHANGED <<store, sess>>

\* pl.update_to_db()
UpdateToDb(i) ==
    /\ inst[i] # NoRow
    /\ IF inst[i].pl_id \in PlRows(plannings)
       THEN /\ plannings' = UpdateStatus(plannings, inst[i].pl_id, inst[i].status)
            /\ pending' = EmptyPending
            /\ last' = Call("update_to_db", i, 0, 0, "None")
       ELSE /\ last' = Call("update_to_db", i, 0, 0, "AssertionError")
            /\ UNCHANGED <<plannings, pending>>
    /\ UNCHANGED <<options, voters, votes, inst, sess>>

\* pl.remove_from_db()
RemoveFromDb(i) ==
    /\ inst[i] # NoRow
    /\ IF inst[i].pl_id = None
       THEN /\ last' = Call("remove_from_db", i, 0, 0, "AssertionError")
            /\ UNCHANGED <<plannings, options, pending>>
       ELSE /\ options' = DeleteOptions(options, inst[i].pl_id)
            /\ IF inst[i].pl_id \in PlRows(plannings)
               THEN /\ plannings' = DeletePlanning(plannings, inst[i].pl_id)
                    /\ pending' = EmptyPending
                    /\ last' = Call("remove_from_db", i, 0, 0, "None")
               ELSE \* the assert on rowcount fails before the commit
                    /\ pending' = [o \in OptIds |->
                           IF o \in OptionsOf(options, inst[i].pl_id)
                           THEN options[o] ELSE pending[o]]
                    /\ last' = Call("remove_from_db", i, 0, 0, "AssertionError")
                    /\ UNCHANGED plannings
    /\ UNCHANGED <<voters, votes, inst, sess>>

\* pl.add_option(txt)
AddOption(i, txt) ==
    /\ inst[i] # NoRow
    /\ IF inst[i].pl_id = None \/ txt = ""
       THEN /\ last' = Call("add_option", i, 0, 0, "AssertionError")
            /\ UNCHANGED <<options, pending>>
       ELSE /\ NextOptId(options) <= MaxOpt
            /\ options' = InsertOption(options, inst[i].pl_id, txt,
                                       NewNum(options, inst[i].pl_id))
            /\ pending' = EmptyPending
            /\ last' = Call("add_option", i, NextOptId(options), 0, "None")
    /\ UNCHANGED <<plannings, voters, votes, inst, sess>>

\* opt.add_vote_to_db(User(id=v, first_name=fn, last_name=ln)), opt an
\* Option instance loaded from row o
OptionAddVote(o, v, fn, ln) ==
    /\ o \in OptRows(options)
    /\ NbVotes(votes) < MaxVotes
    /\ voters' = CreateOrUpdateVoter(voters, v, fn, ln)
    /\ votes' = InsertVote(votes, o, v)
    /\ pending' = EmptyPending
    /\ UNCHANGED <<plannings, options, inst, sess>>

\* pl = Planning.load_under_construction_from_db(u, conn)
LoadUnderConstruction(i, u) ==
    /\ IF Cardinality(UnderConstructionOf(plannings, u)) > 1
       THEN /\ last' = Call("load_under_construction", i, 0, 0, "AssertionError")
            /\ UNCHANGED inst
       ELSE IF UnderConstructionOf(plannings, u) = {}
       THEN /\ last' = Call("load_under_construction", i, 0, 0, "None")
            /\ inst' = [inst EXCEPT ![i] = NoRow]
       ELSE /\ last' = Call("load_under_construction", i, 0, 0, "Planning")
            /\ inst' = [inst EXCEPT ![i] =
                   FromRow(plannings, CHOOSE p \in UnderConstructionOf(plannings, u) : TRUE)]
    /\ UNCHANGED <<store, sess>>

\* pl = Planning.load_opened_from_db(p, conn)
LoadOpened(i, p) ==
    /\ IF OpenedWithId(plannings, p) = {}
       THEN /\ last' = Call("load_opened", i, p, 0, "None")
            /\ inst' = [inst EXCEPT ![i] = NoRow]
       ELSE /\ last' = Call("load_opened", i, p, 0, "Planning")
            /\ inst' = [inst EXCEPT ![i] = FromRow(plannings, p)]
    /\ UNCHANGED <<store, sess>>

Next ==
    \/ \E i \in Insts, t \in ApiTitles : PlanningInit(i, ApiUser, t, UNDER_CONSTRUCTION)
    \/ \E i \in Insts : SaveToDb(i)
    \/ \E i \in Insts : Open(i)
    \/ \E i \in Insts : Close(i)
    \/ \E i \in Insts : UpdateToDb(i)
    \/ \E i \in Insts : RemoveFromDb(i)
    \/ \E i \in Insts, txt \in Texts \cup {""} : AddOption(i, txt)
    \/ \E i \in Insts : LoadUnderConstruction(i, ApiUser)
    \/ \E i \in Insts, p \in PlIds : LoadOpened(i, p)

Spec == Init /\ [][Next]_vars

\* ------------------------------ the entity API, Planning and Option instances
\* EntitySpec drives the constructors, save_to_db and the load_* methods of
\* Planning and Option over every title, status, text and ordinal of the
\* input sets; a slot of inst then holds a Planning or an Option instance.
IsPlanning(x) == x # NoRow /\ "title" \in DOMAIN x
IsOption(x) == x # NoRow /\ "txt" \in DOMAIN x

\* An Option instance built from a row, as Option.load_from_db builds it.
OptionFromRow(opts, o) ==
    [opt_id |-> o, pl_id |-> opts[o].pl_id, txt |-> opts[o].txt,
     num |-> opts[o].num]

\* opt = Option(None, p, txt, n, conn)
OptionInit(i, p, txt, n) ==
    /\ IF txt = ""
       THEN /\ last' = Call("Option", i, 0, 0, "AssertionError")
            /\ UNCHANGED inst
       ELSE /\ inst' = [inst EXCEPT ![i] =
                   [opt_id |-> None, pl_id |-> p, txt |-> txt, num |-> n]]
            /\ last' = Call("Option", i, 0, 0, "None")
    /\ UNCHANGED <<store, sess>>

\* opt.save_to_db()
OptionSaveToDb(i) ==
    /\ IsOption(inst[i])
    /\ IF OptionIsInDb(options, inst[i].opt_id) = "True"
       THEN /\ last' = Call("Option.save_to_db", i, 0, 0, "AssertionError")
            /\ UNCHANGED <<options, pending, inst>>
       ELSE /\ NextOptId(options) <= MaxOpt
            /\ options' = InsertOption(options, inst[i].pl_id, inst[i].txt,
                                       inst[i].num)
            /\ pending' = EmptyPending
            /\ inst' = [inst EXCEPT ![i].opt_id = NextOptId(options)]
            /\ last' = Call("Option.save_to_db", i, 0, 0, "None")
    /\ UNCHANGED <<plannings, voters, votes, sess>>

\* opt = Option.load_from_db(conn, p, n)
OptionLoadFromDb(i, p, n) ==
    /\ IF Cardinality(OptionsAt(options, p, n)) > 1
       THEN /\ last' = Call("Option.load_from_db", i, p, n, "AssertionError")
            /\ UNCHANGED inst
       ELSE IF OptionsAt(options, p, n) = {}
       THEN /\ last' = Call("Option.load_from_db", i, p, n, "None")
            /\ inst' = [inst EXCEPT ![i] = NoRow]
       ELSE /\ last' = Call("Option.load_from_db", i, p, n, "Option")
            /\ inst' = [inst EXCEPT ![i] =
                   OptionFromRow(options, CHOOSE o \in OptionsAt(options, p, n) : TRUE)]
    /\ UNCHANGED <<store, sess>>

\* The caller of EntitySpec keeps one variable: pl / opt is rebound by each
\* constructor and load.
EntityInsts == {1}
EntityNums == 0..(MaxOpt - 1)

EntityNext ==
    \/ \E i \in EntityInsts, t \in Titles \cup {""}, st \in Status :
           PlanningInit(i, ApiUser, t, st)
    \/ \E i \in EntityInsts : IsPlanning(inst[i]) /\ SaveToDb(i)
    \/ \E i \in EntityInsts : LoadUnderConstruction(i, ApiUser)
    \/ \E i \in EntityInsts, p \in PlIds : LoadOpened(i, p)
    \/ \E i \in EntityInsts, p \in PlIds, txt \in Texts \cup {""}, n \in EntityNums :
           OptionInit(i, p, txt, n)
    \/ \E i \in EntityInsts : OptionSaveToDb(i)
    \/ \E i \in EntityInsts, p \in PlIds, n \in EntityNums : OptionLoadFromDb(i, p, n)

EntitySpec == Init /\ [][EntityNext]_vars

\* ------------------------------------ the entity API, votes on a planning
\* VoteSpec drives one Planning instance as the voting tests do: it is
\* saved, given options, opened and closed, and votes are added through
\* the options it returns.
\* pl.options[k].add_vote_to_db(User(id=v, first_name=fn, last_name=ln)):
\* Option.add_vote_to_db has no return statement.
OptionsAddVoteToDb(i, k, v, fn, ln) ==
    /\ IsPlanning(inst[i])
    /\ LET opts == LoadAllFromPlanningIdFromDb(options, inst[i].pl_id) IN
       IF k >= Len(opts)
       THEN /\ last' = Call("add_vote_to_db", i, 0, v, "IndexError")
            /\ UNCHANGED <<store, inst, sess>>
       ELSE /\ OptionAddVote(opts[k + 1], v, fn, ln)
            /\ last' = Call("add_vote_to_db", i, opts[k + 1], v, "None")

VoteNext ==
    \/ \E i \in EntityInsts, t \in ApiTitles :
           PlanningInit(i, ApiUser, t, UNDER_CONSTRUCTION)
    \/ \E i \in EntityInsts : SaveToDb(i)
    \/ \E i \in EntityInsts : Open(i)
    \/ \E i \in EntityInsts : Close(i)
    \/ \E i \in EntityInsts : UpdateToDb(i)
    \/ \E i \in EntityInsts, txt \in Texts : AddOption(i, txt)
    \/ \E i \in EntityInsts, k \in EntityNums, v \in Users, nm \in Names :
           OptionsAddVoteToDb(i, k, v, nm[1], nm[2])

VoteSpec == Init /\ [][VoteNext]_vars

\* ------------------------------------- handlers.py, one whole handler a step
\* Planning.add_vote_to_db(pl_id, opt_num, voter, db_conn)
PlanningAddVote(p, n, v, fn, ln) ==
    IF Cardinality(OptionsAt(options, p, n)) # 1
    THEN /\ last' = Call("vote", p, n, v, "AssertionError")
         /\ UNCHANGED <<store, inst, sess>>
    ELSE /\ OptionAddVote(CHOOSE o \in OptionsAt(options, p, n) : TRUE, v, fn, ln)
         /\ last' = [op |-> "vote", i |-> p, o |-> n, v |-> v,
                     res |-> "click_notification",
                     fn |-> fn, ln |-> ln, was |-> voters[v]]

\* PlannerInlineHandler.on_callback_query, query data "<p> <n>" from user v
OnCallbackQuery(p, n, v, fn, ln) == PlanningAddVote(p, n, v, fn, ln)

\* PlannerChatHandler.on_command_help, and on_chat_message for a message
\* that is not text
OnCommandHelp(u) ==
    /\ last' = Call("/help", u, 0, 0, "help_answer")
    /\ UNCHANGED <<store, inst, sess>>

OnNotText(u) ==
    /\ last' = Call("not text", u, 0, 0, "dont_understand")
    /\ UNCHANGED <<store, inst, sess>>

\* A message text is a sequence of pieces: " " is one space, any other
\* piece is a run of characters that does not start with a space.
\* text.lstrip()
RECURSIVE LStrip(_)
LStrip(text) ==
    IF text # <<>> /\ Head(text) = " " THEN LStrip(Tail(text)) ELSE text

\* text.partition(' ')[2]: what follows the first space, '' without one
RECURSIVE AfterFirstSpace(_)
AfterFirstSpace(text) ==
    IF text = <<>> THEN <<>>
    ELSE IF Head(text) = " " THEN Tail(text)
    ELSE AfterFirstSpace(Tail(text))

\* the str made of the pieces
RECURSIVE Join(_)
Join(text) == IF text = <<>> THEN "" ELSE Head(text) \o Join(Tail(text))

\* a title taken from the whole text, the command included
TitleOfWholeText(text) == Join(text)

\* command, _, title = text.lstrip().partition(' ')
TitleOf(text) == Join(AfterFirstSpace(LStrip(text)))

\* Texts that is_command(text, '/new') accepts: "/new", "/new ", "/new  "
\* and "/new Fancy diner".
NewTexts ==
    {<<"/new">>, <<"/new", " ">>, <<"/new", " ", " ">>,
     <<"/new", " ", "Fancy diner">>}

\* PlannerChatHandler.on_command_new
OnCommandNew(u, text) ==
    /\ IF Cardinality(UnderConstructionOf(plannings, u)) > 1
       THEN /\ last' = [op |-> "/new", i |-> u, o |-> 0, v |-> 0,
                        res |-> "AssertionError", text |-> text]
            /\ UNCHANGED plannings
       ELSE IF UnderConstructionOf(plannings, u) # {}
       THEN /\ last' = [op |-> "/new", i |-> u, o |-> 0, v |-> 0,
                        res |-> "new_already_in_progress", text |-> text]
            /\ UNCHANGED plannings
       ELSE IF TitleOf(text) = ""
       THEN /\ last' = [op |-> "/new", i |-> u, o |-> 0, v |-> 0,
                        res |-> "new_error_answer", text |-> text]
            /\ UNCHANGED plannings
       ELSE /\ NextPlId(plannings) <= MaxPl
            /\ plannings' = InsertPlanning(plannings, u, TitleOf(text),
                                           UNDER_CONSTRUCTION)
            /\ last' = [op |-> "/new", i |-> u, o |-> 0, v |-> 0,
                        res |-> "new_answer", text |-> text]
    /\ UNCHANGED <<options, voters, votes, pending, inst, sess>>

\* PlannerChatHandler.on_command_plannings: the reply gives the number of
\* plannings and the short description of each, numbered by enumerate().
OnCommandPlannings(u) ==
    /\ last' = [op |-> "/plannings", i |-> u, o |-> 0, v |-> 0,
                res |-> "plannings_answer",
                nb_plannings |-> Len(LoadAllFromDb(plannings, u)),
                planning_list |-> PlanningList(plannings, u)]
    /\ UNCHANGED <<store, inst, sess>>

\* PlannerChatHandler.on_command_cancel
OnCommandCancel(u) ==
    /\ IF Cardinality(UnderConstructionOf(plannings, u)) > 1
       THEN /\ last' = Call("/cancel", u, 0, 0, "AssertionError")
            /\ UNCHANGED <<plannings, options>>
       ELSE IF UnderConstructionOf(plannings, u) = {}
       THEN /\ last' = Call("/cancel", u, 0, 0, "no_current_planning_answer")
            /\ UNCHANGED <<plannings, options>>
       ELSE LET p == CHOOSE q \in UnderConstructionOf(plannings, u) : TRUE IN
            /\ options' = DeleteOptions(options, p)
            /\ plannings' = DeletePlanning(plannings, p)
            /\ last' = Call("/cancel", u, 0, 0, "cancel_answer")
    /\ UNCHANGED <<voters, votes, pending, inst, sess>>

\* PlannerChatHandler.on_command_done: "planning.status = OPENED" assigns
\* to a property that has no setter, so the handler raises before
\* update_to_db is reached.
OnCommandDone(u) ==
    /\ IF Cardinality(UnderConstructionOf(plannings, u)) > 1
       THEN last' = Call("/done", u, 0, 0, "AssertionError")
       ELSE IF UnderConstructionOf(plannings, u) = {}
       THEN last' = Call("/done", u, 0, 0, "no_current_planning_answer")
       ELSE LET p == CHOOSE q \in UnderConstructionOf(plannings, u) : TRUE IN
            IF OptionsOf(options, p) = {}
            THEN last' = Call("/done", u, 0, 0, "done_error_answer")
            ELSE last' = Call("/done", u, 0, 0, "AttributeError")
    /\ UNCHANGED <<store, inst, sess>>

\* PlannerChatHandler.on_not_a_command
OnNotACommand(u, txt) ==
    /\ IF Cardinality(UnderConstructionOf(plannings, u)) > 1
       THEN /\ last' = Call("text", u, 0, 0, "AssertionError")
            /\ UNCHANGED options
       ELSE IF UnderConstructionOf(plannings, u) = {}
       THEN /\ last' = Call("text", u, 0, 0, "dont_understand")
            /\ UNCHANGED options
       ELSE LET p == CHOOSE q \in UnderConstructionOf(plannings, u) : TRUE IN
            /\ NextOptId(options) <= MaxOpt
            /\ options' = InsertOption(options, p, txt, NewNum(options, p))
            /\ last' = Call("text", u, NextOptId(options), 0, "option_answer")
    /\ UNCHANGED <<plannings, voters, votes, pending, inst, sess>>

ChatNext ==
    \/ \E u \in Users : OnCommandHelp(u)
    \/ \E u \in Users : OnNotText(u)
    \/ \E u \in Users, text \in NewTexts : OnCommandNew(u, text)
    \/ \E u \in Users : OnCommandPlannings(u)
    \/ \E u \in Users : OnCommandCancel(u)
    \/ \E u \in Users : OnCommandDone(u)
    \/ \E u \in Users, txt \in Texts : OnNotACommand(u, txt)
    \/ \E p \in PlIds, n \in Nums, v \in Users, nm \in Names :
           OnCallbackQuery(p, n, v, nm[1], nm[2])

ChatSpec == Init /\ [][ChatNext]_vars

\* ----------------- handlers.py over plannings of every status, two owners
\* OwnerSpec: plannings of two owners are saved in any status through the
\* entity API and given options, and the owners send chat messages.
OwnerTitle == "Fancy diner"

OwnerNext ==
    \/ \E i \in EntityInsts, u \in Users, st \in Status :
           PlanningInit(i, u, OwnerTitle, st)
    \/ \E i \in EntityInsts : SaveToDb(i)
    \/ \E i \in EntityInsts, txt \in Texts : AddOption(i, txt)
    \/ \E u \in Users : OnCommandCancel(u)
    \/ \E u \in Users : OnCommandPlannings(u)
    \/ \E u \in Users, text \in NewTexts : OnCommandNew(u, text)
    \/ \E u \in Users : OnCommandDone(u)
    \/ \E u \in Users, txt \in Texts : OnNotACommand(u, txt)

OwnerSpec == Init /\ [][OwnerNext]_vars

\* ----------------------------------- comparing instances (planning.py)
\* EqualSpec: the caller keeps two variables, each bound to an Option or a
\* Voter instance by a constructor or a load, and compares them with ==.
IsVoter(x) == x # NoRow /\ "v_id" \in DOMAIN x

\* opt = Option(o, p, txt, n, conn), o an id or None
OptionInitWithId(i, o, p, txt, n) ==
    /\ inst' = [inst EXCEPT ![i] =
                   [opt_id |-> o, pl_id |-> p, txt |-> txt, num |-> n]]
    /\ last' = Call("Option", i, 0, 0, "None")
    /\ UNCHANGED <<store, sess>>

\* v = Voter(v, fn, ln, conn)
VoterInit(i, v, fn, ln) ==
    /\ inst' = [inst EXCEPT ![i] =
                   [v_id |-> v, first_name |-> fn, last_name |-> ln]]
    /\ last' = Call("Voter", i, 0, 0, "None")
    /\ UNCHANGED <<store, sess>>

\* a == b for two instances of a class that defines no __eq__: Python falls
\* back to object.__eq__, which is true for one and the same object only.
\* Every constructor and load call makes a new object, so the objects bound
\* to two variables are the same object only if the variables are the same.
ObjectEq(i, j) == i = j

\* inst[i] == inst[j]; x in [y] compares with the same operator
InstancesEq(i, j) ==
    /\ inst[i] # NoRow /\ inst[j] # NoRow
    /\ last' = Call("==", i, j, 0, IF ObjectEq(i, j) THEN "True" ELSE "False")
    /\ UNCHANGED <<store, inst, sess>>

EqualPl == 1

EqualNext ==
    \/ \E i \in Insts, o \in OptIds \cup {None}, txt \in Texts, n \in EntityNums :
           OptionInitWithId(i, o, EqualPl, txt, n)
    \/ \E i \in Insts : OptionSaveToDb(i)
    \/ \E i \in Insts, n \in EntityNums : OptionLoadFromDb(i, EqualPl, n)
    \/ \E i \in Insts, v \in Users, nm \in Names : VoterInit(i, v, nm[1], nm[2])
    \/ \E i, j \in Insts : InstancesEq(i, j)

EqualSpec == Init /\ [][EqualNext]_vars

\* ------------------------------ inline query ids (planning.py, handlers.py)
\* InlineSpec: a Planning instance holds any id the store has handed out so
\* far (or None before it is saved); inline_query_id formats it and
\* on_inline_query parses query strings.  A string is a sequence of pieces:
\* the prefix "planning_" is one piece, every other piece is one character
\* or a run of characters that is not a digit.
MaxInlineId == 120
InlineIds == 1..MaxInlineId

DigitChars == <<"0", "1", "2", "3", "4", "5", "6", "7", "8", "9">>

\* '{pl_id}'.format(pl_id=n) for an int n >= 0: its decimal digits
RECURSIVE StrOfInt(_)
StrOfInt(n) ==
    IF n < 10 THEN <<DigitChars[n + 1]>>
    ELSE StrOfInt(n \div 10) \o <<DigitChars[(n % 10) + 1]>>

IsDigit(c) == \E d \in 1..10 : DigitChars[d] = c

DigitValue(c) == (CHOOSE d \in 1..10 : DigitChars[d] = c) - 1

\* int(s) raises ValueError for the empty string and for a string with a
\* character that is not a digit
RaisesValueError(s) == s = <<>> \/ \E k \in 1..Len(s) : ~IsDigit(s[k])

\* int(s) for a string of decimal digits
RECURSIVE IntOfStr(_)
IntOfStr(s) ==
    IF Len(s) = 1 THEN DigitValue(s[1])
    ELSE 10 * IntOfStr(SubSeq(s, 1, Len(s) - 1)) + DigitValue(s[Len(s)])

\* an inline query id that keeps the last digit of the id only
InlineQueryIdLastDigit(p) ==
    <<INLINE_QUERY_PREFIX>> \o
        (IF p = None THEN <<"None">> ELSE <<DigitChars[(p % 10) + 1]>>)

\* Planning.inline_query_id: '{prefix}{pl_id}'; a pl_id of None prints "None"
InlineQueryId(p) ==
    <<INLINE_QUERY_PREFIX>> \o (IF p = None THEN <<"None">> ELSE StrOfInt(p))

\* pl.inline_query_id()
PlanningInlineQueryId(i) ==
    /\ inst[i] # NoRow
    /\ last' = Call("inline_query_id", i, inst[i].pl_id, 0,
                     InlineQueryId(inst[i].pl_id))
    /\ UNCHANGED <<store, inst, sess>>

\* query strings received by the bot
QueryStrings ==
    {InlineQueryId(p) : p \in InlineIds \cup {None}}
        \cup {<<>>, <<"Fancy diner">>, <<"1">>, <<INLINE_QUERY_PREFIX>>,
              <<INLINE_QUERY_PREFIX, "x">>, <<INLINE_QUERY_PREFIX, "0", "1">>}

\* PlannerInlineHandler.on_inline_query, compute_answer: last.o is the parsed
\* pl_id (None when the handler returned before or at the parse), last.res
\* tells whether an article was returned.
OnInlineQuery(qs) ==
    /\ IF qs = <<>> \/ Head(qs) # INLINE_QUERY_PREFIX
       THEN last' = [op |-> "inline_query", i |-> 0, o |-> None, v |-> 0,
                     res |-> "[]", text |-> qs]
       ELSE IF RaisesValueError(Tail(qs))
       THEN last' = [op |-> "inline_query", i |-> 0, o |-> None, v |-> 0,
                     res |-> "[]", text |-> qs]
       ELSE LET pl_id == IntOfStr(Tail(qs)) IN
            last' = [op |-> "inline_query", i |-> 0, o |-> pl_id, v |-> 0,
                     res |-> IF OpenedWithId(plannings, pl_id) = {}
                             THEN "[]" ELSE "articles",
                     text |-> qs]
    /\ UNCHANGED <<store, inst, sess>>

InlineInit ==
    /\ plannings = [p \in PlIds |-> NoRow]
    /\ options = [o \in OptIds |-> NoRow]
    /\ voters = [v \in Users |-> NoRow]
    /\ votes = [x \in OptIds \X Users |-> 0]
    /\ pending = EmptyPending
    /\ \E p \in InlineIds \cup {None}, st \in Status :
           inst = [i \in Insts |->
                      IF i \in EntityInsts
                      THEN [pl_id |-> p, user_id |-> ApiUser,
                            title |-> OwnerTitle, status |-> st]
                      ELSE NoRow]
    /\ sess = [s \in Sessions |-> Idle]
    /\ last = Call("init", 0, 0, 0, "None")

InlineNext ==
    \/ \E i \in EntityInsts, st \in Status : PlanningInit(i, ApiUser, OwnerTitle, st)
    \/ \E i \in EntityInsts : SaveToDb(i)
    \/ \E i \in EntityInsts : PlanningInlineQueryId(i)
    \/ \E qs \in QueryStrings : OnInlineQuery(qs)
    \/ \E i \in EntityInsts, p \in PlIds : LoadOpened(i, p)
    \/ \E i \in EntityInsts : RemoveFromDb(i)

InlineSpec == InlineInit /\ [][InlineNext]_vars

\* ------------------- handlers.py, two sessions interleaved by SQL statement
\* Each handler instance opens its own connection (PlannerChatHandler.__init__)
\* and every INSERT / UPDATE is committed right after it, so a statement with
\* its commit is one step and a SELECT is one step.
ConcTitle == "Fancy diner"
ConcText == "Monday"
ConcName == <<"Joey", "NULL">>

At(s, pc) == sess[s].pc = pc
Goto(s, loc) == sess' = [sess EXCEPT ![s] = loc]

\* on_command_new: the SELECT of load_under_construction_from_db
CNewSelect(s, u) ==
    /\ At(s, "idle")
    /\ IF Cardinality(UnderConstructionOf(plannings, u)) > 1
       THEN /\ last' = Call("/new", u, 0, 0, "AssertionError")
            /\ UNCHANGED sess
       ELSE IF UnderConstructionOf(plannings, u) # {}
       THEN /\ last' = Call("/new", u, 0, 0, "new_already_in_progress")
            /\ UNCHANGED sess
       ELSE /\ Goto(s, [Idle EXCEPT !.pc = "new_insert", !.u = u])
            /\ UNCHANGED last
    /\ UNCHANGED <<store, inst>>

\* on_command_new: the INSERT of Planning.save_to_db
CNewInsert(s) ==
    /\ At(s, "new_insert")
    /\ NextPlId(plannings) <= MaxPl
    /\ plannings' = InsertPlanning(plannings, sess[s].u, ConcTitle, UNDER_CONSTRUCTION)
    /\ last' = Call("/new", sess[s].u, 0, 0, "new_answer")
    /\ Goto(s, Idle)
    /\ UNCHANGED <<options, voters, votes, pending, inst>>

\* on_not_a_command: the SELECT of load_under_construction_from_db
CTextSelect(s, u) ==
    /\ At(s, "idle")
    /\ IF Cardinality(UnderConstructionOf(plannings, u)) > 1
       THEN /\ last' = Call("text", u, 0, 0, "AssertionError")
            /\ UNCHANGED sess
       ELSE IF UnderConstructionOf(plannings, u) = {}
       THEN /\ last' = Call("text", u, 0, 0, "dont_understand")
            /\ UNCHANGED sess
       ELSE /\ Goto(s, [Idle EXCEPT !.pc = "text_count", !.u = u,
                   !.p = CHOOSE q \in UnderConstructionOf(plannings, u) : TRUE])
            /\ UNCHANGED last
    /\ UNCHANGED <<store, inst>>

\* on_not_a_command: len(planning.options), a SELECT
CTextCount(s) ==
    /\ At(s, "text_count")
    /\ Goto(s, [sess[s] EXCEPT !.pc = "text_insert",
                               !.n = Cardinality(OptionsOf(options, sess[s].p))])
    /\ UNCHANGED <<store, inst, last>>

\* on_not_a_command: the INSERT of Option.save_to_db
CTextInsert(s) ==
    /\ At(s, "text_insert")
    /\ NextOptId(options) <= MaxOpt
    /\ options' = InsertOption(options, sess[s].p, ConcText, sess[s].n)
    /\ last' = Call("text", sess[s].u, NextOptId(options), 0, "option_answer")
    /\ Goto(s, Idle)
    /\ UNCHANGED <<plannings, voters, votes, pending, inst>>

\* on_callback_query: the SELECT of Option.load_from_db
CVoteLoad(s, p, n, v) ==
    /\ At(s, "idle")
    /\ IF Cardinality(OptionsAt(options, p, n)) # 1
       THEN /\ last' = Call("vote", p, n, v, "AssertionError")
            /\ UNCHANGED sess
       ELSE /\ Goto(s, [Idle EXCEPT !.pc = "vote_select", !.u = v, !.p = p, !.n = n,
                   !.o = CHOOSE o \in OptionsAt(options, p, n) : TRUE])
            /\ UNCHANGED last
    /\ UNCHANGED <<store, inst>>

\* Voter.create_or_update_to_db: SELECT * FROM voters WHERE v_id=?
CVoteSelect(s) ==
    /\ At(s, "vote_select")
    /\ Goto(s, [sess[s] EXCEPT !.pc = IF voters[sess[s].u] # NoRow
                                       THEN "vote_update" ELSE "vote_save"])
    /\ UNCHANGED <<store, inst, last>>

\* Voter.update_to_db: assert self.is_in_db(), then UPDATE voters
CVoteUpdate(s) ==
    /\ At(s, "vote_update")
    /\ voters' = CreateOrUpdateVoter(voters, sess[s].u, ConcName[1], ConcName[2])
    /\ Goto(s, [sess[s] EXCEPT !.pc = "vote_insert"])
    /\ UNCHANGED <<plannings, options, votes, pending, inst, last>>

\* Voter.save_to_db: the SELECT of "assert not self.is_in_db()"
CVoteSaveCheck(s) ==
    /\ At(s, "vote_save")
    /\ IF voters[sess[s].u] # NoRow
       THEN /\ last' = Call("vote", sess[s].p, sess[s].n, sess[s].u, "AssertionError")
            /\ Goto(s, Idle)
       ELSE /\ Goto(s, [sess[s] EXCEPT !.pc = "vote_save_insert"])
            /\ UNCHANGED last
    /\ UNCHANGED <<store, inst>>

\* Voter.save_to_db: INSERT INTO voters; v_id is UNIQUE
CVoteSaveInsert(s) ==
    /\ At(s, "vote_save_insert")
    /\ IF voters[sess[s].u] # NoRow
       THEN /\ last' = Call("vote", sess[s].p, sess[s].n, sess[s].u, "IntegrityError")
            /\ Goto(s, Idle)
            /\ UNCHANGED voters
       ELSE /\ voters' = CreateOrUpdateVoter(voters, sess[s].u, ConcName[1], ConcName[2])
            /\ Goto(s, [sess[s] EXCEPT !.pc = "vote_insert"])
            /\ UNCHANGED last
    /\ UNCHANGED <<plannings, options, votes, pending, inst>>

\* Option.add_vote_to_db: INSERT INTO votes(opt_id, v_id)
CVoteInsert(s) ==
    /\ At(s, "vote_insert")
    /\ NbVotes(votes) < MaxVotes
    /\ votes' = InsertVote(votes, sess[s].o, sess[s].u)
    /\ last' = Call("vote", sess[s].p, sess[s].n, sess[s].u, "click_notification")
    /\ Goto(s, Idle)
    /\ UNCHANGED <<plannings, options, voters, pending, inst>>

ConcNext ==
    \/ \E s \in Sessions, u \in Users : CNewSelect(s, u)
    \/ \E s \in Sessions : CNewInsert(s)
    \/ \E s \in Sessions, u \in Users : CTextSelect(s, u)
    \/ \E s \in Sessions : CTextCount(s)
    \/ \E s \in Sessions : CTextInsert(s)
    \/ \E s \in Sessions, p \in PlIds, n \in Nums, v \in Users : CVoteLoad(s, p, n, v)
    \/ \E s \in Sessions : CVoteSelect(s)
    \/ \E s \in Sessions : CVoteUpdate(s)
    \/ \E s \in Sessions : CVoteSaveCheck(s)
    \/ \E s \in Sessions : CVoteSaveInsert(s)
    \/ \E s \in Sessions : CVoteInsert(s)

ConcSpec == Init /\ [][ConcNext]_vars

\* ---------------- handlers.py, /cancel interleaved with /new and option texts
\* CancelSpec: two sessions handle /new, option texts and /cancel.
\* remove_from_db runs both DELETEs and the commit under the write lock of
\* its connection, so for the other session they are one step.  When the
\* planning row is already gone the assert on rowcount raises before the
\* commit: the connection keeps its write transaction open, and until it
\* ends every write of the other connection fails with "database is
\* locked".  The session whose /cancel failed handles no further message.
OpenTx == \E t \in Sessions : At(t, "cancel_failed")

\* on_command_cancel: the SELECT of load_under_construction_from_db
CCancelSelect(s, u) ==
    /\ At(s, "idle")
    /\ IF Cardinality(UnderConstructionOf(plannings, u)) > 1
       THEN /\ last' = Call("/cancel", u, 0, 0, "AssertionError")
            /\ UNCHANGED sess
       ELSE IF UnderConstructionOf(plannings, u) = {}
       THEN /\ last' = Call("/cancel", u, 0, 0, "no_current_planning_answer")
            /\ UNCHANGED sess
       ELSE /\ Goto(s, [Idle EXCEPT !.pc = "cancel_remove", !.u = u,
                   !.p = CHOOSE q \in UnderConstructionOf(plannings, u) : TRUE])
            /\ UNCHANGED last
    /\ UNCHANGED <<store, inst>>

\* on_command_cancel: planning.remove_from_db()
CCancelRemove(s) ==
    /\ At(s, "cancel_remove")
    /\ IF OpenTx
       THEN /\ last' = Call("/cancel", sess[s].u, 0, 0, "OperationalError")
            /\ Goto(s, Idle)
            /\ UNCHANGED <<plannings, options>>
       ELSE IF sess[s].p \in PlRows(plannings)
       THEN /\ options' = DeleteOptions(options, sess[s].p)
            /\ plannings' = DeletePlanning(plannings, sess[s].p)
            /\ last' = Call("/cancel", sess[s].u, 0, 0, "cancel_answer")
            /\ Goto(s, Idle)
       ELSE /\ last' = Call("/cancel", sess[s].u, 0, 0, "AssertionError")
            /\ Goto(s, [sess[s] EXCEPT !.pc = "cancel_failed"])
            /\ UNCHANGED <<plannings, options>>
    /\ UNCHANGED <<voters, votes, pending, inst>>

\* an INSERT of the other connection while a write transaction is open
CLockedInsert(s) ==
    /\ OpenTx
    /\ At(s, "new_insert") \/ At(s, "text_insert")
    /\ last' = Call(IF At(s, "new_insert") THEN "/new" ELSE "text",
                     sess[s].u, 0, 0, "OperationalError")
    /\ Goto(s, Idle)
    /\ UNCHANGED <<store, inst>>

\* the INSERTs of /new and of an option text when no transaction is open
CUnlockedNewInsert(s) == ~OpenTx /\ CNewInsert(s)

CUnlockedTextInsert(s) == ~OpenTx /\ CTextInsert(s)

CancelNext ==
    \/ \E s \in Sessions, u \in Users : CNewSelect(s, u)
    \/ \E s \in Sessions : CUnlockedNewInsert(s)
    \/ \E s \in Sessions, u \in Users : CTextSelect(s, u)
    \/ \E s \in Sessions : CTextCount(s)
    \/ \E s \in Sessions : CUnlockedTextInsert(s)
    \/ \E s \in Sessions, u \in Users : CCancelSelect(s, u)
    \/ \E s \in Sessions : CCancelRemove(s)
    \/ \E s \in Sessions : CLockedInsert(s)

CancelSpec == Init /\ [][CancelNext]_vars

\* ------------------------------------------------------------------ claims
NbUnderConstruction(u) ==
    Cardinality({p \in PlIds : /\ plannings[p] # NoRow
                               /\ plannings[p].user_id = u
                               /\ plannings[p].status = UNDER_CONSTRUCTION})

\* C1: with chat messages handled one at a time, every owner has at most
\* one planning whose stored status is "Under construction".
C1_OneUnderConstruction == \A u \in Users : NbUnderConstruction(u) <= 1

\* C1 witness: a /new was refused because the owner's under-construction
\* planning exists.
C1_Witness ==
    /\ last.op = "/new" /\ last.res = "new_already_in_progress"
    /\ NbUnderConstruction(last.i) = 1

\* C2: when two sessions handle /new for the same owner and their SELECT and
\* INSERT interleave, the owner still has at most one under-construction row.
C2_AtomicNew ==
    \A u \in Users :
        (\A s \in Sessions : sess[s].pc # "new_insert" \/ sess[s].u # u)
            => NbUnderConstruction(u) <= 1

\* C3: every (option, voter) pair has at most one row in the votes table.
C3_OneVotePerPair == \A x \in OptIds \X Users : votes[x] <= 1

\* C4: once two sessions have both finished handling a vote-button press,
\* no (option, voter) pair has two vote rows.
C4_AtomicVote ==
    (\A s \in Sessions : sess[s].pc = "idle")
        => \A o \in OptIds, v \in Users : votes[<<o, v>>] < 2

\* C5: a vote for an option of a planning whose status is "Under
\* construction" or "Closed" fails with LogicError.
C5_VoteGated ==
    (/\ last.op = "vote"
     /\ Cardinality(OptionsAt(options, last.i, last.o)) = 1
     /\ last.i \in PlRows(plannings)
     /\ plannings[last.i].status \in {UNDER_CONSTRUCTION, CLOSED})
        => last.res = "LogicError"

\* C6: a vote that must fail (its planning is not opened, or the voter has
\* already voted for that option) leaves the votes and voters tables as
\* they were.
C6_VoteStep ==
    /\ last'.op = "vote"
    /\ Cardinality(OptionsAt(options, last'.i, last'.o)) = 1
    /\ last'.i \in PlRows(plannings)
    /\ \/ plannings[last'.i].status # OPENED
       \/ votes[<<CHOOSE o \in OptionsAt(options, last'.i, last'.o) : TRUE, last'.v>>] > 0

C6_FailedVoteAtomic ==
    [][C6_VoteStep => (votes' = votes /\ voters' = voters)]_vars

\* C7: open() succeeds exactly when the instance's status is "Under
\* construction" and close() exactly when it is "Opened"; a rejected call
\* leaves the status unchanged.
C7_OpenStep ==
    last'.op = "open" =>
        IF inst[last'.i].status = UNDER_CONSTRUCTION
        THEN last'.res = "None" /\ inst'[last'.i].status = OPENED
        ELSE last'.res = "AssertionError" /\ inst' = inst

C7_CloseStep ==
    last'.op = "close" =>
        IF inst[last'.i].status = OPENED
        THEN last'.res = "None" /\ inst'[last'.i].status = CLOSED
        ELSE last'.res = "AssertionError" /\ inst' = inst

C7_OpenClose == [][C7_OpenStep /\ C7_CloseStep]_vars

\* C7 witness: open() called a second time in a row was rejected.
C7_Witness ==
    /\ last.op = "open" /\ last.res = "AssertionError"
    /\ inst[last.i].status = OPENED

\* C8: the stored status of a planning row changes only from "Under
\* construction" to "Opened" and from "Opened" to "Closed" (never backward,
\* never past "Opened", never out of "Closed").
C8_LegalMove(old, new) ==
    \/ old = new
    \/ old = UNDER_CONSTRUCTION /\ new = OPENED
    \/ old = OPENED /\ new = CLOSED

C8_StoredStatusMoves ==
    [][\A p \in PlIds :
          (plannings[p] # NoRow /\ plannings'[p] # NoRow)
              => C8_LegalMove(plannings[p].status, plannings'[p].status)]_vars

\* C9: after remove_from_db() on a persisted planning its row is absent,
\* is_in_db() is false and no option row carries its id.
C9_Removed ==
    (last.op = "remove_from_db" /\ last.res = "None")
        => /\ plannings[inst[last.i].pl_id] = NoRow
           /\ PlanningIsInDb(plannings, inst[last.i].pl_id) = "False"
           /\ OptionsOf(options, inst[last.i].pl_id) = {}

\* C10: every row of the votes table refers to an option row that exists.
C10_VotesHaveOption ==
    \A o \in OptIds, v \in Users : votes[<<o, v>>] > 0 => options[o] # NoRow

\* C11: a successful remove_from_db() of one planning (reached through
\* /cancel) leaves every other planning row, every option row of the other
\* plannings, every vote row on those options and every voter row unchanged.
C11_RemoveStep == last'.op = "/cancel" /\ last'.res = "cancel_answer"

C12_VotesOn(v, p) ==
    {o \in OptIds : votes[<<o, v>>] > 0 /\ options[o] # NoRow /\ options[o].pl_id = p}

C12_VotersFollowRemove ==
    [][(last'.op = "/cancel" /\ last'.res = "cancel_answer") =>
          \E p \in PlIds :
              /\ plannings[p] # NoRow /\ plannings'[p] = NoRow
              /\ \A v \in Users :
                     /\ (/\ C12_VotesOn(v, p) # {}
                         /\ \A q \in PlIds \ {p} : C12_VotesOn(v, q) = {})
                            => voters'[v] = NoRow
                     /\ (/\ voters[v] # NoRow
                         /\ \E q \in PlRows(plannings) \ {p} : C12_VotesOn(v, q) # {})
                            => voters'[v] # NoRow]_vars

\* C13: a vote upserts its voter by id: an unknown id gets one new row, a
\* known id keeps its single row and has first and last name overwritten;
\* no other voter row changes, so the row count grows only for a new id.
C13_NbVoters(vs) == Cardinality({w \in Users : vs[w] # NoRow})

C13_UpsertById ==
    [][(last'.op = "vote" /\ last'.res = "click_notification") =>
          /\ voters'[last'.v] = [first_name |-> last'.fn, last_name |-> last'.ln]
          /\ \A w \in Users \ {last'.v} : voters'[w] = voters[w]
          /\ C13_NbVoters(voters') =
                 C13_NbVoters(voters) + (IF voters[last'.v] = NoRow THEN 1 ELSE 0)]_vars

\* C13 witness: a voter stored under one name voted again under another
\* name and the row now carries the new name.
C13_Witness ==
    /\ last.op = "vote" /\ last.res = "click_notification"
    /\ last.was # NoRow
    /\ last.was # [first_name |-> last.fn, last_name |-> last.ln]
    /\ voters[last.v] = [first_name |-> last.fn, last_name |-> last.ln]

\* C14: save_to_db() on a Planning instance whose id is assigned and whose
\* row exists fails with AssertionError and inserts no row.
C14_SaveOnce ==
    [][(last'.op = "save_to_db" /\ inst[last'.i].pl_id \in PlRows(plannings))
          => (last'.res = "AssertionError" /\ plannings' = plannings)]_vars

\* C15: a load that follows save_to_db() and selects the saved row returns
\* an instance with the assigned id and the saved fields: load_opened_from_db
\* by the assigned id for an opened planning, load_under_construction_from_db
\* for the owner's only under-construction planning, Option.load_from_db by
\* the option's planning id and ordinal when no other option has them.
C15_PlanningStep ==
    (last.op = "save_to_db" /\ last.res = "None") =>
        LET saved == inst[last.i] IN
        /\ (/\ last'.op = "load_opened" /\ last'.o = saved.pl_id
            /\ saved.status = OPENED)
               => (last'.res = "Planning" /\ inst'[last'.i] = saved)
        /\ (/\ last'.op = "load_under_construction"
            /\ saved.status = UNDER_CONSTRUCTION
            /\ \A q \in PlIds \ {saved.pl_id} :
                   \/ plannings[q] = NoRow
                   \/ plannings[q].status # UNDER_CONSTRUCTION
                   \/ plannings[q].user_id # saved.user_id)
               => (last'.res = "Planning" /\ inst'[last'.i] = saved)

C15_OptionStep ==
    (last.op = "Option.save_to_db" /\ last.res = "None") =>
        LET saved == inst[last.i] IN
        (/\ last'.op = "Option.load_from_db"
         /\ last'.o = saved.pl_id /\ last'.v = saved.num
         /\ \A q \in OptIds \ {saved.opt_id} :
                \/ options[q] = NoRow
                \/ options[q].pl_id # saved.pl_id
                \/ options[q].num # saved.num)
            => (last'.res = "Option" /\ inst'[last'.i] = saved)

C16_OptionsOf(opts, p) == {o \in OptIds : opts[o] # NoRow /\ opts[o].pl_id = p}

C16_Ordinals ==
    \A p \in PlIds :
        LET S == C16_OptionsOf(options, p)
            n == Cardinality(S)
            returned == LoadAllFromPlanningIdFromDb(options, p)
        IN /\ {options[o].num : o \in S} = 0..(n - 1)
           /\ \A a, b \in S : a # b => options[a].num # options[b].num
           /\ Len(returned) = n
           /\ \A k \in 1..n : options[returned[k]].num = k - 1

C16_AddStep ==
    (last'.op = "text" /\ last'.res = "option_answer") =>
        /\ options[last'.o] = NoRow /\ options'[last'.o] # NoRow
        /\ options'[last'.o].num =
               Cardinality(C16_OptionsOf(options, options'[last'.o].pl_id))

C16_OrdinalsInOrder == []C16_Ordinals /\ [][C16_AddStep]_vars

\* C16 witness: a second option was just added to a planning and carries
\* ordinal 1 after the first one's ordinal 0.
C16_Witness ==
    /\ last.op = "text" /\ last.res = "option_answer"
    /\ options[last.o] # NoRow /\ options[last.o].num = 1
    /\ \E o \in OptIds \ {last.o} :
           /\ options[o] # NoRow /\ options[o].num = 0
           /\ options[o].pl_id = options[last.o].pl_id

\* C17: add_option(txt) on a saved planning returns the Option it created,
\* and that option's row is stored under the planning's id.
C17_AddOptionReturnsOption ==
    (last.op = "add_option" /\ last.o # 0) =>
        /\ last.res = "Option"
        /\ options[last.o] # NoRow
        /\ options[last.o].pl_id = inst[last.i].pl_id

\* C18: add_vote_to_db on an option of a planning that has been opened
\* returns the Voter that voted; that voter has a row in the voters table and
\* a vote row on the option.
C18_AddVoteReturnsVoter ==
    (/\ last.op = "add_vote_to_db" /\ last.o # 0
     /\ inst[last.i].status = OPENED)
        => /\ last.res = "Voter"
           /\ voters[last.v] # NoRow
           /\ votes[<<last.o, last.v>>] > 0

\* C19: planning.voters holds exactly the voters with at least one vote row
\* on an option of the planning, each of them once; it is the union of
\* option.voters over the planning's options, and the participant total of
\* the full description is the number of those voters.
C19_Range(s) == {s[k] : k \in 1..Len(s)}

C19_VotedOn(p) ==
    {v \in Users : \E o \in OptIds :
        options[o] # NoRow /\ options[o].pl_id = p /\ votes[<<o, v>>] > 0}

C19_PlanningVoters ==
    \A p \in PlIds :
        LET vs == VotersOfPlanning(voters, votes, options, p) IN
        /\ C19_Range(vs) = C19_VotedOn(p)
        /\ Len(vs) = Cardinality(C19_VotedOn(p))
        /\ C19_Range(vs) =
               UNION {C19_Range(VotersOfOption(voters, votes, options, o)) :
                         o \in {x \in OptIds : options[x] # NoRow /\ options[x].pl_id = p}}
        /\ NbParticipants(voters, votes, options, p) = Cardinality(C19_VotedOn(p))

\* C19 witness: one voter has voted on both options of a planning and is
\* its only participant.
C19_Witness ==
    \E p \in PlIds, v \in Users :
        /\ plannings[p] # NoRow
        /\ \A o \in OptIds : options[o] # NoRow /\ options[o].pl_id = p
        /\ \A o \in OptIds : votes[<<o, v>>] = 1
        /\ NbParticipants(voters, votes, options, p) = 1

\* C20: when an owner whose only planning was created by /new and given
\* n >= 1 options sends /done, the owner ends with that one planning row,
\* its title unchanged and its stored status "Opened", and with its n option
\* rows unchanged, their ordinals being 0..n-1.
C20_OwnedBy(pls, u) == {p \in PlIds : pls[p] # NoRow /\ pls[p].user_id = u}

C20_DoneStep ==
    \A p \in PlIds :
        (/\ last'.op = "/done"
         /\ C20_OwnedBy(plannings, last'.i) = {p}
         /\ plannings[p].status = UNDER_CONSTRUCTION
         /\ \E o \in OptIds : options[o] # NoRow /\ options[o].pl_id = p)
            => /\ C20_OwnedBy(plannings', last'.i) = {p}
               /\ plannings'[p].title = plannings[p].title
               /\ plannings'[p].status = OPENED
               /\ options' = options
               /\ LET S == {o \in OptIds : options[o] # NoRow /\ options[o].pl_id = p}
                  IN {options'[o].num : o \in S} = 0..(Cardinality(S) - 1)

C20_CreationEndsOpened == [][C20_DoneStep]_vars

\* C21: a /new, with or without a title, from an owner who has an
\* under-construction planning is refused: no planning row is created and
\* the planning and option rows are left as they were.
C21_NewStep ==
    (last'.op = "/new" /\ NbUnderConstruction(last'.i) >= 1) =>
        /\ last'.res = "new_already_in_progress"
        /\ plannings' = plannings
        /\ options' = options

C21_NewRefused == [][C21_NewStep]_vars

\* C21 witness: a /new was refused for an owner whose under-construction
\* planning has an option; the planning and the option are still stored.
C21_Witness ==
    /\ last.op = "/new" /\ last.res = "new_already_in_progress"
    /\ \E p \in PlIds, o \in OptIds :
           /\ plannings[p] # NoRow /\ plannings[p].user_id = last.i
           /\ plannings[p].status = UNDER_CONSTRUCTION
           /\ options[o] # NoRow /\ options[o].pl_id = p

\* C22: a /new whose text carries nothing after the command ("/new" or
\* "/new ") creates no planning row and no option row, and in every state
\* every stored planning has a title other than the empty string.
C22_NoTitleStep ==
    (last'.op = "/new" /\ last'.text \in {<<"/new">>, <<"/new", " ">>}) =>
        /\ plannings' = plannings
        /\ options' = options

C22_TitlesNotEmpty == \A p \in PlIds : plannings[p] # NoRow => plannings[p].title # ""

C23_UnderConstruction(u) ==
    {p \in PlIds : /\ plannings[p] # NoRow /\ plannings[p].user_id = u
                   /\ plannings[p].status = UNDER_CONSTRUCTION}

C23_CancelStep ==
    last'.op = "/cancel" =>
        /\ \A p \in PlIds :
               C23_UnderConstruction(last'.i) = {p} =>
                   /\ last'.res = "cancel_answer"
                   /\ plannings'[p] = NoRow
                   /\ \A o \in OptIds : options'[o] = NoRow \/ options'[o].pl_id # p
                   /\ \A q \in PlIds \ {p} : plannings'[q] = plannings[q]
        /\ C23_UnderConstruction(last'.i) = {} =>
               /\ last'.res = "no_current_planning_answer"
               /\ plannings' = plannings
               /\ options' = options
        /\ \A q \in PlIds :
               (plannings[q] # NoRow /\ plannings[q].status # UNDER_CONSTRUCTION)
                   => plannings'[q] = plannings[q]

C23_CancelRemovesDraftOnly == [][C23_CancelStep]_vars

\* C23 witness: a /cancel removed the owner's under-construction planning
\* and the owner's opened planning is still stored.
C23_Witness ==
    /\ last.op = "/cancel" /\ last.res = "cancel_answer"
    /\ \A p \in PlIds : plannings[p] = NoRow \/ plannings[p].status # UNDER_CONSTRUCTION
                           \/ plannings[p].user_id # last.i
    /\ \E q \in PlIds : /\ plannings[q] # NoRow /\ plannings[q].user_id = last.i
                         /\ plannings[q].status = OPENED

\* C24: when an owner's /done (on a planning with at least one option) or
\* /cancel (of an under-construction planning) has been handled, the
\* owner's next "/new Fancy diner" is accepted: it creates an
\* under-construction planning and leaves the other planning rows stored.
C24_SlotFreed ==
    \/ /\ last.op = "/done"
       /\ last.res \notin {"no_current_planning_answer", "done_error_answer"}
    \/ /\ last.op = "/cancel" /\ last.res = "cancel_answer"

C24_NextNewStep ==
    (/\ C24_SlotFreed
     /\ last'.op = "/new" /\ last'.i = last.i
     /\ last'.text = <<"/new", " ", "Fancy diner">>)
        => /\ last'.res = "new_answer"
           /\ \E p \in PlIds :
                  /\ plannings[p] = NoRow
                  /\ plannings'[p] = [user_id |-> last'.i, title |-> "Fancy diner",
                                      status |-> UNDER_CONSTRUCTION]
                  /\ \A q \in PlIds \ {p} : plannings'[q] = plannings[q]

C24_NewAfterDoneOrCancel == [][C24_NextNewStep]_vars

\* C25: load_all_from_db(u) returns exactly the plannings owned by u, of
\* any status, in ascending id order; the /plannings reply of u lists those
\* plannings, numbered 1..k in that order, and no planning of another owner.
C25_Owned(u) == {p \in PlIds : plannings[p] # NoRow /\ plannings[p].user_id = u}

\* the k-th smallest id owned by u
C25_Kth(u, k) ==
    CHOOSE p \in C25_Owned(u) :
        Cardinality({q \in C25_Owned(u) : q < p}) = k - 1

C25_LoadAllOfOwner ==
    /\ \A u \in Users :
           LET loaded == LoadAllFromDb(plannings, u) IN
           /\ Len(loaded) = Cardinality(C25_Owned(u))
           /\ \A k \in 1..Len(loaded) : loaded[k] = C25_Kth(u, k)
    /\ last.op = "/plannings" =>
           /\ last.nb_plannings = Cardinality(C25_Owned(last.i))
           /\ Len(last.planning_list) = Cardinality(C25_Owned(last.i))
           /\ \A k \in 1..Len(last.planning_list) :
                  last.planning_list[k] =
                      [num |-> k,
                       title |-> plannings[C25_Kth(last.i, k)].title,
                       status |-> plannings[C25_Kth(last.i, k)].status]

\* C25 witness: the owner of planning 2, an opened one, asked for the
\* listing while planning 1 belongs to the other owner; the reply lists one
\* planning, numbered 1.
C25_Witness ==
    /\ last.op = "/plannings"
    /\ plannings[1] # NoRow /\ plannings[1].user_id # last.i
    /\ plannings[2] # NoRow /\ plannings[2].user_id = last.i
    /\ plannings[2].status = OPENED
    /\ last.nb_plannings = 1
    /\ last.planning_list[1].num = 1

\* C26: what a user's /new, option text, /done and /cancel answer and write
\* is decided by that user's own plannings: whether the user has an
\* under-construction planning, and whether it has options.  A new planning
\* row carries the user's id, a new option row the id of the user's own
\* under-construction planning, and no planning row of another user and no
\* option row of another user's planning changes.
C26_Own(u) == {p \in PlIds : plannings[p] # NoRow /\ plannings[p].user_id = u}

C26_OwnDraft(u) == {p \in C26_Own(u) : plannings[p].status = UNDER_CONSTRUCTION}

C26_OptionsOfPl(p) == {o \in OptIds : options[o] # NoRow /\ options[o].pl_id = p}

C26_Outcome(u) ==
    /\ last'.op = "/new" =>
           /\ (last'.res = "new_already_in_progress") <=> (Cardinality(C26_OwnDraft(u)) = 1)
           /\ (last'.res \in {"new_answer", "new_error_answer"}) <=> (C26_OwnDraft(u) = {})
           /\ \A p \in PlIds : (plannings[p] = NoRow /\ plannings'[p] # NoRow)
                                     => plannings'[p].user_id = u
    /\ last'.op = "text" =>
           /\ (last'.res = "option_answer") <=> (Cardinality(C26_OwnDraft(u)) = 1)
           /\ (last'.res = "dont_understand") <=> (C26_OwnDraft(u) = {})
           /\ \A o \in OptIds : (options[o] = NoRow /\ options'[o] # NoRow)
                                     => options'[o].pl_id \in C26_OwnDraft(u)
    /\ last'.op = "/done" =>
           /\ (last'.res = "no_current_planning_answer") <=> (C26_OwnDraft(u) = {})
           /\ (last'.res = "done_error_answer") <=>
                  (\E p \in PlIds : C26_OwnDraft(u) = {p} /\ C26_OptionsOfPl(p) = {})
    /\ last'.op = "/cancel" =>
           /\ (last'.res = "cancel_answer") <=> (Cardinality(C26_OwnDraft(u)) = 1)
           /\ (last'.res = "no_current_planning_answer") <=> (C26_OwnDraft(u) = {})

C26_OthersUntouched(u) ==
    /\ \A q \in PlIds \ C26_Own(u) : plannings[q] # NoRow => plannings'[q] = plannings[q]
    /\ \A o \in OptIds :
           (options[o] # NoRow /\ options[o].pl_id \in PlRows(plannings) \ C26_Own(u))
               => options'[o] = options[o]

C26_PerUserScoping ==
    [][(last'.op \in {"/new", "text", "/done", "/cancel"})
          => (C26_Outcome(last'.i) /\ C26_OthersUntouched(last'.i))]_vars

\* C26 witness: a user's text became an option of that user's own planning
\* while another user also has an under-construction planning, which has
\* no option.
C26_Witness ==
    /\ last.op = "text" /\ last.res = "option_answer"
    /\ options[last.o] # NoRow
    /\ plannings[options[last.o].pl_id] # NoRow
    /\ plannings[options[last.o].pl_id].user_id = last.i
    /\ \E q \in PlIds :
           /\ plannings[q] # NoRow /\ plannings[q].user_id # last.i
           /\ plannings[q].status = UNDER_CONSTRUCTION
           /\ \A o \in OptIds : options[o] = NoRow \/ options[o].pl_id # q

\* C27: /help, /plannings, a message that is not text, and a plain text sent
\* by a user who has no under-construction planning leave every planning,
\* option, voter and vote row as it was.
C27_NoDraft(u) ==
    \A p \in PlIds : plannings[p] = NoRow
                       \/ plannings[p].user_id # u
                       \/ plannings[p].status # UNDER_CONSTRUCTION

C27_NotACreationStep ==
    \/ last'.op \in {"/help", "/plannings", "not text"}
    \/ last'.op = "text" /\ C27_NoDraft(last'.i)

C27_StoreUnchanged ==
    [][C27_NotACreationStep
          => (plannings' = plannings /\ options' = options
              /\ voters' = voters /\ votes' = votes)]_vars

\* C27 witness: a plain text was answered with dont_understand while the
\* store held another user's under-construction planning with an option and
\* a vote, and the sender had none.
C27_Witness ==
    /\ last.op = "text" /\ last.res = "dont_understand"
    /\ C27_NoDraft(last.i)
    /\ \E p \in PlIds, o \in OptIds :
           /\ plannings[p] # NoRow /\ plannings[p].status = UNDER_CONSTRUCTION
           /\ options[o] # NoRow /\ options[o].pl_id = p
    /\ NbVotes(votes) > 0

\* C28: the inline query id of a persisted planning is the prefix
\* "planning_" followed by the decimal digits of its id and of nothing
\* else; a query string that is the inline query id of a persisted planning
\* is parsed by on_inline_query back to that planning's id, so two plannings
\* with different ids never have the same inline query id.
C28_PrefixThenId ==
    (last.op = "inline_query_id" /\ last.o # None) =>
        /\ Head(last.res) = INLINE_QUERY_PREFIX
        /\ Tail(last.res) = StrOfInt(last.o)
        /\ \A q \in InlineIds : q # last.o => InlineQueryId(q) # last.res

C28_ParsedBack ==
    (last.op = "inline_query_id" /\ last.o # None
     /\ last'.op = "inline_query" /\ last'.text = last.res)
        => last'.o = last.o

C28_InlineQueryIdRoundTrip == []C28_PrefixThenId /\ [][C28_ParsedBack]_vars

\* C28 witness: on_inline_query parsed the inline query id of a planning
\* with a three digit id back to that id.
C28_Witness ==
    /\ last.op = "inline_query" /\ last.o >= 100
    /\ last.text = InlineQueryId(last.o)
    /\ \E i \in EntityInsts : inst[i] # NoRow /\ inst[i].pl_id = last.o

\* C29: comparing two Option instances with == answers True exactly when
\* their id, planning id, text and ordinal are all equal; in particular two
\* separately built instances with the same four values are equal, and so
\* are a saved instance and the instance loaded back from its row.
C29_SameValues(a, b) ==
    /\ a.opt_id = b.opt_id /\ a.pl_id = b.pl_id
    /\ a.txt = b.txt /\ a.num = b.num

C29_OptionEquality ==
    (last.op = "==" /\ IsOption(inst[last.i]) /\ IsOption(inst[last.o]))
        => ((last.res = "True") <=> C29_SameValues(inst[last.i], inst[last.o]))

\* C30: comparing two Voter instances with == answers True exactly when
\* their ids are equal, whatever their names.
C30_VoterEquality ==
    (last.op = "==" /\ IsVoter(inst[last.i]) /\ IsVoter(inst[last.o]))
        => ((last.res = "True") <=> (inst[last.i].v_id = inst[last.o].v_id))

\* C31: a successful update_to_db changes the status of the planning row
\* with the instance's id and nothing else: every other planning row and
\* every option, voter and vote row on disk is as before.  With no row of
\* that id it fails with AssertionError and nothing on disk changes.
C31_OnDiskOptions == Committed(options, pending)

C31_UpdateStep ==
    last'.op = "update_to_db" =>
        LET p == inst[last'.i].pl_id IN
        /\ (last'.res = "None") <=> (p \in PlRows(plannings))
        /\ last'.res \in {"None", "AssertionError"}
        /\ last'.res = "None" =>
               /\ plannings'[p] = [plannings[p] EXCEPT !.status = inst[last'.i].status]
               /\ \A q \in PlIds \ {p} : plannings'[q] = plannings[q]
        /\ last'.res = "AssertionError" => plannings' = plannings
        /\ Committed(options', pending') = C31_OnDiskOptions
        /\ voters' = voters /\ votes' = votes

C31_UpdateExactlyOneRow == [][C31_UpdateStep]_vars

\* C32: a remove_from_db that fails with AssertionError (the instance has
\* no id, or no planning row has its id) deletes nothing: every planning,
\* option, voter and vote row is as before, both as the connection reads
\* them and on disk, and no delete is left waiting for the next commit.
C32_FailedRemoveStep ==
    (last'.op = "remove_from_db" /\ last'.res = "AssertionError") =>
        /\ plannings' = plannings
        /\ options' = options
        /\ pending' = pending
        /\ voters' = voters /\ votes' = votes

C32_FailedRemoveLeavesStore == [][C32_FailedRemoveStep]_vars

\* C33: open() and close() write nothing to the store, whether they succeed
\* or fail: the stored status of every planning row is as before, and only
\* the status held by the instance may change.  A successful update_to_db
\* makes the stored status of the instance's row equal to the status the
\* instance holds.
C33_OpenCloseStep ==
    last'.op \in {"open", "close"} =>
        /\ plannings' = plannings /\ options' = options /\ pending' = pending
        /\ voters' = voters /\ votes' = votes
        /\ \A i \in Insts : i # last'.i => inst'[i] = inst[i]
        /\ inst'[last'.i] = [inst[last'.i] EXCEPT !.status = inst'[last'.i].status]

C33_PersistStep ==
    (last'.op = "update_to_db" /\ last'.res = "None") =>
        /\ inst' = inst
        /\ plannings'[inst[last'.i].pl_id] # NoRow
        /\ plannings'[inst[last'.i].pl_id].status = inst[last'.i].status

C33_StatusPersistedExplicitly == [][C33_OpenCloseStep /\ C33_PersistStep]_vars

\* C33 witness: an instance was opened and closed in memory and then
\* persisted: update_to_db returned and the stored status is Closed.
C33_Witness ==
    /\ last.op = "update_to_db" /\ last.res = "None"
    /\ inst[last.i].status = CLOSED
    /\ plannings[inst[last.i].pl_id] # NoRow
    /\ plannings[inst[last.i].pl_id].status = CLOSED

\* C34: a planning whose stored status is Under construction has no vote
\* row on any of its options, in every reachable state.
C34_VotesOnOption(o) == {v \in Users : votes[<<o, v>>] > 0}

C34_DraftHasNoVote ==
    \A p \in PlIds, o \in OptIds :
        (plannings[p] # NoRow /\ plannings[p].status = UNDER_CONSTRUCTION
         /\ options[o] # NoRow /\ options[o].pl_id = p)
            => C34_VotesOnOption(o) = {}

\* C35: an id the store hands out was never the id of an earlier row, so
\* an option that a text message has just added has no voter.
C35_NewOptionStep ==
    (last'.op = "text" /\ last'.res = "option_answer") =>
        /\ options[last'.o] = NoRow /\ options'[last'.o] # NoRow
        /\ \A v \in Users : votes'[<<last'.o, v>>] = 0

C35_NewOptionHasNoVoter == [][C35_NewOptionStep]_vars

\* C36: a /done of an owner whose under-construction planning has no option
\* is answered with done_error_answer and writes nothing, the planning
\* staying Under construction; no /done moves a planning without options to
\* Opened, and in every state reached through the chat handlers every
\* planning stored as Opened has at least one option.
C36_DraftsOf(u) ==
    {p \in PlIds : /\ plannings[p] # NoRow /\ plannings[p].user_id = u
                    /\ plannings[p].status = UNDER_CONSTRUCTION}

C36_HasOption(p) == \E o \in OptIds : options[o] # NoRow /\ options[o].pl_id = p

C36_DoneStep ==
    last'.op = "/done" =>
        /\ \A p \in PlIds :
               (C36_DraftsOf(last'.i) = {p} /\ ~C36_HasOption(p)) =>
                   /\ last'.res = "done_error_answer"
                   /\ plannings' = plannings /\ options' = options
                   /\ voters' = voters /\ votes' = votes
        /\ (last'.res = "done_error_answer") =>
               \E p \in PlIds : C36_DraftsOf(last'.i) = {p} /\ ~C36_HasOption(p)
        /\ \A p \in PlIds :
               (plannings'[p] # NoRow /\ plannings'[p].status = OPENED
                /\ (plannings[p] = NoRow \/ plannings[p].status # OPENED))
                   => C36_HasOption(p)

C36_OpenedHasOption ==
    \A p \in PlIds :
        (plannings[p] # NoRow /\ plannings[p].status = OPENED) => C36_HasOption(p)

C36_DoneNeedsOption == []C36_OpenedHasOption /\ [][C36_DoneStep]_vars

\* C36 witness: a /done was refused with done_error_answer for an owner
\* whose under-construction planning has no option, while the other owner's
\* planning has one.
C36_Witness ==
    /\ last.op = "/done" /\ last.res = "done_error_answer"
    /\ \E p \in PlIds : C36_DraftsOf(last.i) = {p} /\ ~C36_HasOption(p)
    /\ \E q \in PlIds : /\ plannings[q] # NoRow /\ plannings[q].user_id # last.i
                         /\ C36_HasOption(q)

\* C37: once a planning is stored as Opened or Closed, no chat message
\* adds, removes or changes an option row of it.  A plain text of its owner
\* becomes an option of the owner's under-construction planning if there is
\* one, and is answered with dont_understand, writing nothing, if there is
\* none.
C37_ChatOps == {"/help", "not text", "/new", "/plannings", "/cancel", "/done", "text"}

C37_Published(p) ==
    plannings[p] # NoRow /\ plannings[p].status \in {OPENED, CLOSED}

C37_Drafts(u) ==
    {p \in PlIds : /\ plannings[p] # NoRow /\ plannings[p].user_id = u
                    /\ plannings[p].status = UNDER_CONSTRUCTION}

C37_ChatStep ==
    last'.op \in C37_ChatOps =>
        /\ \A p \in PlIds : C37_Published(p) =>
               \A o \in OptIds :
                   /\ (options[o] # NoRow /\ options[o].pl_id = p)
                          => options'[o] = options[o]
                   /\ (options'[o] # NoRow /\ options'[o].pl_id = p)
                          => options[o] = options'[o]
        /\ (last'.op = "text" /\ C37_Drafts(last'.i) = {}) =>
               (last'.res = "dont_understand" /\ options' = options)
        /\ (last'.op = "text" /\ last'.res = "option_answer") =>
               /\ options'[last'.o] # NoRow
               /\ options'[last'.o].pl_id \in C37_Drafts(last'.i)

C37_OptionsOnlyWhileDraft == [][C37_ChatStep]_vars

\* C37 witness: the owner of an Opened or Closed planning that has an option
\* sent a text, which became an option of the owner's other planning.
C37_Witness ==
    /\ last.op = "text" /\ last.res = "option_answer"
    /\ options[last.o] # NoRow
    /\ \E p \in PlIds :
           /\ C37_Published(p) /\ plannings[p].user_id = last.i
           /\ options[last.o].pl_id # p
           /\ \E o \in OptIds : options[o] # NoRow /\ options[o].pl_id = p

\* C38: in every reachable state every option row has the id of a stored
\* planning row and no two option rows of one planning have the same
\* ordinal, also when two sessions handle messages of one owner at once.
C38_NoOrphanOption ==
    \A o \in OptIds : options[o] # NoRow => plannings[options[o].pl_id] # NoRow

C38_OrdinalsDistinct ==
    \A o1, o2 \in OptIds :
        (o1 # o2 /\ options[o1] # NoRow /\ options[o2] # NoRow
         /\ options[o1].pl_id = options[o2].pl_id)
            => options[o1].num # options[o2].num

C38_OptionsOfStoredPlanning == C38_NoOrphanOption /\ C38_OrdinalsDistinct

\* C39: load_opened_from_db(p) returns a planning exactly when a row with
\* id p is stored with status Opened, and the planning it returns is that
\* row; an inline query is answered with an article exactly when its query
\* string is the prefix followed by digits that name such a row, so a query
\* naming an under-construction, closed, removed or unknown planning and a
\* malformed query string get the empty answer.
C39_IsOpened(p) ==
    p \in PlIds /\ plannings[p] # NoRow /\ plannings[p].status = OPENED

C39_LoadOpened ==
    last.op = "load_opened" =>
        /\ last.res \in {"Planning", "None"}
        /\ (last.res = "Planning") <=> C39_IsOpened(last.o)
        /\ last.res = "Planning" =>
               /\ inst[last.i].pl_id = last.o
               /\ inst[last.i].status = OPENED
               /\ inst[last.i].title = plannings[last.o].title
               /\ inst[last.i].user_id = plannings[last.o].user_id

C39_InlineQuery ==
    last.op = "inline_query" =>
        /\ last.res \in {"articles", "[]"}
        /\ (last.res = "articles") <=>
               /\ last.text # <<>>
               /\ Head(last.text) = INLINE_QUERY_PREFIX
               /\ ~RaisesValueError(Tail(last.text))
               /\ C39_IsOpened(IntOfStr(Tail(last.text)))

C39_OfferedOnlyWhileOpened == C39_LoadOpened /\ C39_InlineQuery

\* C39 witness: an inline query naming a stored planning whose status is
\* Closed got the empty answer.
C39_Witness ==
    /\ last.op = "inline_query" /\ last.res = "[]"
    /\ last.o \in PlIds
    /\ last.text = InlineQueryId(last.o)
    /\ plannings[last.o] # NoRow /\ plannings[last.o].status = CLOSED

\* C40: a vote for a planning id and option number that no stored option
\* has fails with AssertionError before anything is written: no voter row
\* is inserted or updated, no vote row is created, and the planning and
\* option rows are as before.
C40_NoSuchOption(p, n) ==
    \A o \in OptIds : options[o] = NoRow \/ options[o].pl_id # p \/ options[o].num # n

C40_VoteStep ==
    (last'.op = "vote" /\ C40_NoSuchOption(last'.i, last'.o)) =>
        /\ last'.res = "AssertionError"
        /\ voters' = voters /\ votes' = votes
        /\ plannings' = plannings /\ options' = options

C40_VoteForNoOptionFails == [][C40_VoteStep]_vars

\* C40 witness: a vote for an option number that the named planning does
\* not have was refused, the planning having another option and the voter
\* being stored already with a vote.
C40_Witness ==
    /\ last.op = "vote" /\ last.res = "AssertionError"
    /\ C40_NoSuchOption(last.i, last.o)
    /\ plannings[last.i] # NoRow
    /\ \E o \in OptIds : options[o] # NoRow /\ options[o].pl_id = last.i
    /\ voters[last.v] # NoRow
    /\ \E o \in OptIds : votes[<<o, last.v>>] > 0

====
